---- MODULE Spec2Model ----
(***************************************************************************)
(* Model of the templation backend core:                                   *)
(*   - repository discovery: search_github_repos_simple with its cache     *)
(*     (redis_client.get_json / set_json) and its durable-store upsert,    *)
(*   - template conversion: convert_repo_to_template with the retry        *)
(*     wrappers around get_repo_details / get_repo_structure and the       *)
(*     analysis chain OpenAI -> Anthropic -> rule engine,                  *)
(*   - enrichment and ranking: process_repository_item (enhanced path),    *)
(*     process_repository_item_simple and filter_and_rank_repos applied    *)
(*     to batches of provider items,                                       *)
(*   - template naming: generate_template_name and extract_key_words,      *)
(*   - concurrent tasks on shared storage: save_repository_to_db with      *)
(*     get_cached_repositories_for_user, and increment_user_stat.          *)
(* Scores are fixed-point numbers in thousandths of a point.               *)
(***************************************************************************)
EXTENDS Integers, Sequences, FiniteSets, TLC

VARIABLES
    cache,      \* Redis: function from cache key to the stored JSON value
    cacheUp,    \* TRUE: Redis answers; FALSE: every get/set fails or no client
    db,         \* rows of the repositories table
    today,      \* the current date, in days
    sreq,       \* the search requests: one task each, run once
    firstCall,  \* history: per (description, filters), the list a completed search
                \* returned and cached, while the TTL of that entry has not elapsed
    cv,         \* the conversion request
    templates,  \* number of template records created
    enh,        \* the enhanced enrichment-and-ranking pass over provider items
    named,      \* the call of generate_template_name: inputs and result
    lib,        \* the last call of get_cached_repositories_for_user per user
    saves,      \* tasks that each run save_repository_to_db once
    inc         \* the tasks that create a template and count it

vars == <<cache, cacheUp, db, today, sreq, firstCall, cv, templates, enh, named, lib, saves, inc>>

\* ---------------------------------------------------------------------------
\* Bounds of the model
\* ---------------------------------------------------------------------------
MaxItems == 11      \* longest provider response
MaxDay == 1         \* the date advances at most this many times
MaxFiles == 2       \* largest file listing
MaxBatch == 2       \* items in a batch of the enhanced pass
MaxWords == 3       \* words in a description handed to generate_template_name
MaxSaves == 2       \* tasks running save_repository_to_db
MaxConverts == 3    \* conversion requests counting their templates

\* ---------------------------------------------------------------------------
\* Program constants
\* ---------------------------------------------------------------------------
ResultLimit == 10   \* return repos[:10]
MaxRetries == 3     \* max_retries: int = 3
QualityCap == 20000 \* min(20.0, score)
EnhancedQualityCap == 25000 \* min(25.0, score)

NoneVal == "None"   \* Python's None for strings (also: key absent under .get)
NoInt == -1000      \* Python's None for integers

\* outcome of a cache read: an Optional value, or an exception (raised)
Nothing == [some |-> FALSE, val |-> << >>, raised |-> FALSE]
Some(v) == [some |-> TRUE, val |-> v, raised |-> FALSE]
Raised == [some |-> FALSE, val |-> << >>, raised |-> TRUE]

Reqs == {"r1", "r2"}
Users == {NoneVal, "u1"}

\* ---------------------------------------------------------------------------
\* Python string and list operations
\* ---------------------------------------------------------------------------
UpperLetters == "ABCDEFGHIJKLMNOPQRSTUVWXYZ"
LowerLetters == "abcdefghijklmnopqrstuvwxyz"

\* the character at position i, as a string of length 1
CharAt(s, i) == SubSeq(s, i, i)

LowerChar(c) ==
    IF \E i \in 1..26 : CharAt(UpperLetters, i) = c
    THEN CharAt(LowerLetters, CHOOSE i \in 1..26 : CharAt(UpperLetters, i) = c)
    ELSE c

\* str.lower()
RECURSIVE str_lower(_)
str_lower(s) ==
    IF s = "" THEN "" ELSE LowerChar(CharAt(s, 1)) \o str_lower(SubSeq(s, 2, Len(s)))

\* sub in s
Contains(s, sub) ==
    \E i \in 1..(Len(s) - Len(sub) + 1) : SubSeq(s, i, i + Len(sub) - 1) = sub

\* s.replace(c, " ") for a character c
RECURSIVE ReplaceBySpace(_, _)
ReplaceBySpace(s, c) ==
    IF s = "" THEN ""
    ELSE (IF CharAt(s, 1) = c THEN " " ELSE CharAt(s, 1))
             \o ReplaceBySpace(SubSeq(s, 2, Len(s)), c)

\* s.split(c): the pieces between the occurrences of c, empty ones included
RECURSIVE SplitOn(_, _, _)
SplitOn(s, c, word) ==
    IF s = "" THEN <<word>>
    ELSE IF CharAt(s, 1) = c
         THEN <<word>> \o SplitOn(SubSeq(s, 2, Len(s)), c, "")
         ELSE SplitOn(SubSeq(s, 2, Len(s)), c, word \o CharAt(s, 1))

\* s.split(): the words between runs of blanks
Split(s) == SelectSeq(SplitOn(s, " ", ""), LAMBDA w : w # "")

Min(a, b) == IF a < b THEN a ELSE b

\* list[:n]
Take(s, n) == SubSeq(s, 1, Min(n, Len(s)))

\* the list s when cond holds, else the empty list
IfSeq(cond, s) == IF cond THEN s ELSE << >>

\* x in list
InSeq(x, list) == \E i \in 1..Len(list) : list[i] = x

\* ", ".join(list)
RECURSIVE JoinComma(_)
JoinComma(list) ==
    IF list = << >> THEN ""
    ELSE IF Len(list) = 1 THEN list[1]
    ELSE list[1] \o ", " \o JoinComma(Tail(list))

\* ---------------------------------------------------------------------------
\* Provider payloads for the search endpoint
\* ---------------------------------------------------------------------------
\* The items a (mocked) provider can return, by id.  description = NoneVal is
\* GitHub's "description": null, language = NoneVal its "language": null.
Item(i) ==
    CASE i = 0 -> [full_name |-> "acme/legacy", name |-> "legacy", html_url |-> 0,
                   stargazers_count |-> 50, forks_count |-> 0,
                   description |-> NoneVal, language |-> "Python", topics |-> << >>,
                   days_since_update |-> 10, license |-> FALSE,
                   size |-> 500, open_issues_count |-> 0, watchers_count |-> 0]
      [] i = 1 -> [full_name |-> "acme/todo-list", name |-> "todo-list", html_url |-> 1,
                   stargazers_count |-> 50000, forks_count |-> 100,
                   description |-> "todo list", language |-> "jq",
                   topics |-> <<"jq", "todo">>,
                   days_since_update |-> 400, license |-> FALSE,
                   size |-> 20000, open_issues_count |-> 40, watchers_count |-> 200]
      [] i = 2 -> [full_name |-> "acme/todo_app", name |-> "todo_app", html_url |-> 2,
                   stargazers_count |-> 500, forks_count |-> 10,
                   description |-> "a simple React todo app with docker and api",
                   language |-> "TypeScript",
                   topics |-> <<"react", "nextjs", "todo", "typescript", "tailwind", "vercel">>,
                   days_since_update |-> 10, license |-> TRUE,
                   size |-> 5000, open_issues_count |-> 1, watchers_count |-> 500]
      [] i = 4 -> [full_name |-> "acme/stale", name |-> "stale", html_url |-> 4,
                   stargazers_count |-> 1, forks_count |-> 0,
                   description |-> "old notes", language |-> NoneVal,
                   topics |-> << >>,
                   days_since_update |-> 400, license |-> FALSE,
                   size |-> 100, open_issues_count |-> 0, watchers_count |-> 1]
      [] OTHER -> [full_name |-> "acme/notes", name |-> "notes", html_url |-> i,
                   stargazers_count |-> 5, forks_count |-> 0,
                   description |-> "advanced notes", language |-> NoneVal,
                   topics |-> << >>,
                   days_since_update |-> 100, license |-> FALSE,
                   size |-> 100, open_issues_count |-> 0, watchers_count |-> 5]

Long(n) == [i \in 1..n |-> i]

\* item lists of the HTTP 200 responses
ItemLists ==
    {<< >>, <<1, 2>>, <<2, 1>>, <<0, 2>>, Long(MaxItems)}

\* status 0 stands for a transport error or timeout (httpx raises)
Responses ==
    {[status |-> 200, items |-> l] : l \in ItemLists}
        \cup {[status |-> s, items |-> << >>] : s \in {403, 500, 0}}

\* ---------------------------------------------------------------------------
\* Search inputs
\* ---------------------------------------------------------------------------
Descs == {"todo app"}

\* filters: present = FALSE is filters=None
Filters ==
    { [present |-> FALSE, language |-> NoneVal, min_stars |-> NoInt, max_age_days |-> NoInt],
      [present |-> TRUE, language |-> "Python", min_stars |-> 0, max_age_days |-> 1] }

\* Python truthiness of an optional string, an optional integer, an optional list
TruthyStr(x) == x # NoneVal /\ x # ""
TruthyInt(x) == x # NoInt /\ x # 0
TruthyList(x) == x.some /\ x.val # << >>

\* query_parts of search_github_repos_simple, joined: the qualifiers present
SearchQuery(d, f, now) ==
    [ text     |-> d,
      language |-> IF f.present /\ TruthyStr(f.language) THEN f.language ELSE NoneVal,
      stars    |-> IF f.present /\ TruthyInt(f.min_stars) THEN f.min_stars ELSE NoInt,
      pushed   |-> IF f.present /\ TruthyInt(f.max_age_days)
                     THEN now - f.max_age_days ELSE NoInt ]

\* _get_cache_key: md5 of url and params, taken as injective
CacheKey(url, params) == <<url, params>>

SearchKey(d, f, now) == CacheKey("search/repositories", SearchQuery(d, f, now))

\* ---------------------------------------------------------------------------
\* Cache layer (redis_client.py and the wrappers of github_service.py)
\* ---------------------------------------------------------------------------
\* the Redis client's get: raises when the backend is down
RedisGet(c, up, k) ==
    IF ~up THEN Raised
    ELSE IF k \in DOMAIN c THEN Some(c[k]) ELSE Nothing

\* get_json: None when there is no client, on any exception, or when the key is absent
GetJson(c, up, k) ==
    LET got == RedisGet(c, up, k)
    IN IF got.raised THEN Nothing ELSE got

\* _get_cached without its guard, reading the client directly
GetCached_Unguarded(c, up, k) == RedisGet(c, up, k)

\* _get_cached: get_json, any exception turned into None
GetCached(c, up, k) ==
    LET got == GetJson(c, up, k)
    IN IF got.raised THEN Nothing ELSE got

\* set_json that keeps the entry a key already has (SET with NX)
SetJson_KeepFirst(c, up, k, v) ==
    IF ~up \/ k \in DOMAIN c THEN c
    ELSE [x \in DOMAIN c \cup {k} |-> IF x = k THEN v ELSE c[x]]

\* set_json: the cache after the call (unchanged when Redis is unavailable)
SetJson(c, up, k, v) ==
    IF ~up THEN c
    ELSE [x \in DOMAIN c \cup {k} |-> IF x = k THEN v ELSE c[x]]

\* _set_cache
SetCache(c, up, k, v) == SetJson(c, up, k, v)

\* ---------------------------------------------------------------------------
\* Enrichment and scoring, simple path
\* ---------------------------------------------------------------------------
\* min(10, 2 * stars ** 0.3), in thousandths, on the star counts of the payloads
StarPoints(stars) ==
    CASE stars <= 0 -> 0
      [] stars = 1 -> 2000
      [] stars = 5 -> 3241
      [] stars = 50 -> 6467
      [] OTHER -> 10000

\* min(5, forks ** 0.2), in thousandths, on the fork counts of the payloads
ForkPoints(forks) ==
    CASE forks <= 0 -> 0
      [] forks = 10 -> 1584
      [] forks = 100 -> 2511
      [] OTHER -> 5000

calculate_simple_quality_score(item) ==
    LET s1 == StarPoints(item.stargazers_count)
        s2 == s1 + ForkPoints(item.forks_count)
        s3 == s2 + (IF TruthyStr(item.description) THEN 2000 ELSE 0)
        s4 == s3 + (IF item.days_since_update < 30 THEN 5000
                    ELSE IF item.days_since_update < 90 THEN 3000
                    ELSE IF item.days_since_update < 365 THEN 1000 ELSE 0)
        s5 == s4 + (IF item.license THEN 2000 ELSE 0)
    IN Min(QualityCap, s5)

\* "advanced" in description or "complex" in description, on the lower-cased text
MentionsHard(desc) ==
    Contains(str_lower(desc), "advanced") \/ Contains(str_lower(desc), "complex")

\* process_repository_item_simple raises inside its try (and returns None) when
\* description is null: item.get("description", "").lower()
ProcessFails(item) == item.description = NoneVal

\* tech_stack of the simple path: the language, then up to 4 topics
SimpleTechStack(item) ==
    IfSeq(TruthyStr(item.language), <<item.language>>) \o Take(item.topics, 4)

\* the RepoResult built from an item that ProcessFails does not reject
process_repository_item_simple(item) ==
         [ name |-> item.full_name,
           url |-> item.html_url,
           visual_summary |-> item.description,
           tech_stack |-> SimpleTechStack(item),
           customization_difficulty |->
               IF item.stargazers_count > 1000 \/ MentionsHard(item.description) THEN "hard"
               ELSE IF item.stargazers_count > 100
                       \/ Contains(str_lower(item.description), "intermediate") THEN "medium"
               ELSE "easy",
           quality_score |-> calculate_simple_quality_score(item),
           relevance_score |-> 0 ]

\* the ids of the provider items, and per id what process_repository_item_simple
\* returns for the item, computed once
ItemIds == 0..MaxItems
SimpleResults == [i \in ItemIds |-> process_repository_item_simple(Item(i))]

\* combined_score of filter_and_rank_repos, times 10
combined_score(repo) == repo.relevance_score * 6 + repo.quality_score * 4

\* ---------------------------------------------------------------------------
\* Persistence sync
\* ---------------------------------------------------------------------------
NoRow == 0          \* scalar_one_or_none() returned None

\* the rows a select on (user_id, github_url) matches
SameKey(rows, user, url) == {x \in rows : x.user_id = user /\ x.github_url = url}

\* save_repository_to_db up to its first suspension: the select and
\* scalar_one_or_none(), which raises when the store fails (up = FALSE) or
\* when more than one row matches.  existing: the id of the row found
save_select(rows, item, user, up) ==
    LET same == SameKey(rows, user, item.html_url)
    IN IF ~up \/ Cardinality(same) > 1 THEN [raised |-> TRUE, existing |-> NoRow]
       ELSE IF same = {} THEN [raised |-> FALSE, existing |-> NoRow]
       ELSE [raised |-> FALSE, existing |-> (CHOOSE x \in same : TRUE).id]

\* save_repository_to_db after the select: the row found is updated, or a row
\* is added under a fresh id (uuid4; here the serial number among the rows of
\* the same key), and the session commits.  The table has no unique
\* constraint on (user_id, github_url)
save_commit(rows, existing, item, user) ==
    IF existing # NoRow
    THEN {IF x.id = existing /\ x.user_id = user /\ x.github_url = item.html_url
          THEN [x EXCEPT !.stars = item.stargazers_count] ELSE x : x \in rows}
    ELSE rows \cup {[id |-> 1 + Cardinality(SameKey(rows, user, item.html_url)),
                     user_id |-> user, github_url |-> item.html_url,
                     stars |-> item.stargazers_count]}

\* save_repository_to_db run without interleaving; any exception is caught and
\* None is returned.  saved: a row was returned; rows: the table afterwards
save_repository_to_db(rows, item, user, up) ==
    LET sel == save_select(rows, item, user, up)
    IN IF sel.raised THEN [saved |-> FALSE, rows |-> rows]
       ELSE [saved |-> TRUE, rows |-> save_commit(rows, sel.existing, item, user)]

\* the cache key of a user's repository list
UserReposKey(user) == CacheKey("user_repos:" \o user, NoneVal)

LibraryLimit == 50  \* .limit(50)

\* get_cached_repositories_for_user: the list returned (up to order and
\* multiplicity: the set of payloads), the cache afterwards, whether the
\* cache served it.  A user has fewer than LibraryLimit rows here, so the
\* limit cuts nothing off.  A failing store session (up = FALSE) is caught
\* and answered with the empty list
get_cached_repositories_for_user(rows, c, cup, user, up) ==
    LET cached == GetCached(c, cup, UserReposKey(user))
        mine == {x \in rows : x.user_id = user}
        repo_list == {[html_url |-> x.github_url, stargazers_count |-> x.stars] : x \in mine}
    IN IF cached.some /\ cached.val # {}
       THEN [list |-> cached.val, cache |-> c, hit |-> TRUE]
       ELSE IF ~up
       THEN [list |-> {}, cache |-> c, hit |-> FALSE]
       ELSE [list |-> repo_list, hit |-> FALSE,
             cache |-> IF repo_list # {} THEN SetCache(c, cup, UserReposKey(user), repo_list)
                       ELSE c]

\* ---------------------------------------------------------------------------
\* Search requests
\* ---------------------------------------------------------------------------
IdleSearch ==
    [ pc |-> "idle", d |-> NoneVal, f |-> CHOOSE f \in Filters : ~f.present,
      user |-> NoneVal, key |-> CacheKey(NoneVal, NoneVal),
      store_up |-> TRUE,        \* the durable store answers this request's session
      items |-> << >>, idx |-> 0, repos |-> << >>, result |-> << >>,
      pcalls |-> 0, hit |-> FALSE, status |-> 0, error |-> NoneVal,
      repeat |-> FALSE, prior |-> << >>,
      writes |-> 0,             \* history: upserts this request has committed
      stored |-> FALSE,         \* history: this request has called _set_cache
      overlap |-> FALSE,        \* history: started while a request for the same
                                \* key was in flight
      last |-> FALSE ]          \* history: the latest write of the key's cache
                                \* entry is this request's

\* the other requests for key k that are past the cache lookup and not done
InFlight(k, r) ==
    {x \in Reqs \ {r} : sreq[x].key = k /\ sreq[x].pc \in {"fetch", "process"}}

\* search_github_repos_simple up to the provider call: build the query, look the
\* key up, return the cached list on a hit
SearchStart(r, d, f, u, up) ==
    /\ sreq[r].pc = "idle"
    /\ LET k == SearchKey(d, f, today)
           cached == GetCached(cache, cacheUp, k)
           rep == <<d, f>> \in DOMAIN firstCall
           base == [IdleSearch EXCEPT !.d = d, !.f = f, !.user = u, !.key = k,
                        !.store_up = up, !.repeat = rep,
                        !.overlap = InFlight(k, r) # {},
                        !.prior = IF rep THEN firstCall[<<d, f>>].result ELSE << >>]
       IN sreq' = [sreq EXCEPT ![r] =
                      IF cached.raised
                      THEN [base EXCEPT !.pc = "failed", !.error = "cache"]
                      ELSE IF TruthyList(cached)
                      THEN [base EXCEPT !.pc = "done", !.hit = TRUE, !.result = cached.val]
                      ELSE [base EXCEPT !.pc = "fetch", !.pcalls = 1]]
    /\ UNCHANGED <<cache, cacheUp, db, today, firstCall, cv, templates, enh, named, lib, saves, inc>>

\* the provider answers 200 and its items are taken as they come
SearchFetch_Lenient(r, resp) ==
    /\ sreq[r].pc = "fetch"
    /\ sreq' = [sreq EXCEPT ![r] =
                   [@ EXCEPT !.pc = "process", !.status = resp.status,
                             !.items = resp.items, !.idx = 1]]
    /\ UNCHANGED <<cache, cacheUp, db, today, firstCall, cv, templates, enh, named, lib, saves, inc>>

\* the provider answers: 403 and every other non-200 status raise, as does a
\* transport error
SearchFetch(r, resp) ==
    /\ sreq[r].pc = "fetch"
    /\ sreq' = [sreq EXCEPT ![r] =
                   IF resp.status = 200
                   THEN [@ EXCEPT !.pc = "process", !.status = 200,
                                  !.items = resp.items, !.idx = 1]
                   ELSE [@ EXCEPT !.pc = "failed", !.status = resp.status,
                                  !.error = "provider"]]
    /\ UNCHANGED <<cache, cacheUp, db, today, firstCall, cv, templates, enh, named, lib, saves, inc>>

\* the loop body with the repository appended only once its upsert returned a row
SearchLoopTurn_AppendAfterSave(repos, rows, i, user, up) ==
    IF ProcessFails(Item(i)) THEN [repos |-> repos, rows |-> rows, writes |-> 0]
    ELSE LET out == IF user # NoneVal THEN save_repository_to_db(rows, Item(i), user, up)
                    ELSE [saved |-> TRUE, rows |-> rows]
         IN [ repos |-> IF out.saved THEN Append(repos, SimpleResults[i])
                        ELSE repos,
              rows |-> out.rows,
              writes |-> IF user # NoneVal /\ out.saved THEN 1 ELSE 0 ]

\* the body of the loop over data["items"]: the repository is appended, then
\* upserted when a requester is given; no failure leaves the body
SearchLoopTurn(repos, rows, i, user, up) ==
    IF ProcessFails(Item(i)) THEN [repos |-> repos, rows |-> rows, writes |-> 0]
    ELSE LET out == IF user # NoneVal THEN save_repository_to_db(rows, Item(i), user, up)
                    ELSE [saved |-> FALSE, rows |-> rows]
         IN [ repos |-> Append(repos, SimpleResults[i]),
              rows |-> out.rows,
              writes |-> IF out.saved THEN 1 ELSE 0 ]

\* one turn of the loop over data["items"]
SearchProcessItem(r) ==
    /\ sreq[r].pc = "process"
    /\ sreq[r].idx <= Len(sreq[r].items)
    /\ LET i == sreq[r].items[sreq[r].idx]
           out == SearchLoopTurn(sreq[r].repos, db, i, sreq[r].user, sreq[r].store_up)
       IN /\ sreq' = [sreq EXCEPT ![r] =
                         [@ EXCEPT !.idx = @ + 1, !.repos = out.repos,
                                   !.writes = @ + out.writes]]
          /\ db' = out.rows
    /\ UNCHANGED <<cache, cacheUp, today, firstCall, cv, templates, enh, named, lib, saves, inc>>

\* after the loop: cache every processed repository, return the first ten
SearchStore(r) ==
    /\ sreq[r].pc = "process"
    /\ sreq[r].idx > Len(sreq[r].items)
    /\ LET res == Take(sreq[r].repos, ResultLimit)
           inp == <<sreq[r].d, sreq[r].f>>
           kept == {x \in DOMAIN firstCall : firstCall[x].key # sreq[r].key} \ {inp}
       IN /\ cache' = SetCache(cache, cacheUp, sreq[r].key, sreq[r].repos)
          /\ sreq' = [x \in Reqs |->
                         IF x = r
                         THEN [sreq[x] EXCEPT !.pc = "done", !.result = res,
                                              !.stored = TRUE, !.last = cacheUp]
                         ELSE IF sreq[x].key = sreq[r].key /\ cacheUp
                         THEN [sreq[x] EXCEPT !.last = FALSE]
                         ELSE sreq[x]]
          /\ firstCall' =
                 IF cacheUp
                 THEN [x \in kept \cup {inp} |->
                          IF x = inp THEN [key |-> sreq[r].key, result |-> res]
                          ELSE firstCall[x]]
                 ELSE firstCall
    /\ UNCHANGED <<cacheUp, db, today, cv, templates, enh, named, lib, saves, inc>>

\* the task of the request is cancelled while suspended in the provider call
\* or in the loop: CancelledError is no Exception, nothing catches it, and
\* the locals of the coroutine are gone
SearchCancel(r) ==
    /\ sreq[r].pc \in {"fetch", "process"}
    /\ sreq' = [sreq EXCEPT ![r] =
                   [IdleSearch EXCEPT !.pc = "cancelled", !.d = sreq[r].d, !.f = sreq[r].f,
                                      !.user = sreq[r].user, !.key = sreq[r].key,
                                      !.store_up = sreq[r].store_up,
                                      !.pcalls = sreq[r].pcalls,
                                      !.writes = sreq[r].writes]]
    /\ UNCHANGED <<cache, cacheUp, db, today, firstCall, cv, templates, enh, named, lib, saves, inc>>

\* Redis drops an entry whose TTL (ex=expire) has elapsed
Expire(k) ==
    /\ k \in DOMAIN cache
    /\ cache' = [x \in DOMAIN cache \ {k} |-> cache[x]]
    /\ firstCall' = [x \in {y \in DOMAIN firstCall : firstCall[y].key # k} |-> firstCall[x]]
    /\ UNCHANGED <<cacheUp, db, today, sreq, cv, templates, enh, named, lib, saves, inc>>

\* midnight passes: datetime.now() moves to the next date
Tick ==
    /\ today < MaxDay
    /\ today' = today + 1
    /\ UNCHANGED <<cache, cacheUp, db, sreq, firstCall, cv, templates, enh, named, lib, saves, inc>>

\* ---------------------------------------------------------------------------
\* Enrichment and scoring, enhanced path
\* ---------------------------------------------------------------------------
\* answers of the detail endpoints for one repository: the status of
\* /repos/{full_name}, the keys of /languages in order, whether /readme
\* answered 200
EnhResponses ==
    { [status |-> 200,
       languages |-> <<"TypeScript", "JavaScript", "CSS", "HTML", "Shell", "Dockerfile">>,
       readme |-> TRUE],
      [status |-> 200, languages |-> << >>, readme |-> FALSE],
      [status |-> 404, languages |-> << >>, readme |-> FALSE] }

\* the empty dict {} that get_enhanced_repo_details answers on failure
NoEnhDetails == [languages |-> << >>, readme |-> FALSE, empty |-> TRUE]

EnhDetailKey(full_name) == CacheKey("repo_details:" \o full_name, NoneVal)

\* get_enhanced_repo_details: the details returned and the cache afterwards
get_enhanced_repo_details(full_name, c, up, resp) ==
    LET cached == GetCached(c, up, EnhDetailKey(full_name))
        data == [languages |-> resp.languages, readme |-> resp.readme, empty |-> FALSE]
    IN IF cached.some /\ ~cached.val.empty
       THEN [value |-> cached.val, cache |-> c]
       ELSE IF resp.status # 200
       THEN [value |-> NoEnhDetails, cache |-> c]
       ELSE [value |-> data, cache |-> SetCache(c, up, EnhDetailKey(full_name), data)]

\* tech_patterns, the entries that the payloads can match, in dictionary
\* order; each pattern is a word between word boundaries
TechPatterns ==
    << <<"react", "React">>, <<"next", "Next.js">>, <<"django", "Django">>,
       <<"tailwind", "Tailwind CSS">>, <<"docker", "Docker">>, <<"api", "API">> >>

\* tech_stack.append(x) for each x of xs that is not in tech_stack yet
RECURSIVE AppendNew(_, _)
AppendNew(stack, xs) ==
    IF xs = << >> THEN stack
    ELSE AppendNew(IF InSeq(Head(xs), stack) THEN stack ELSE Append(stack, Head(xs)),
                   Tail(xs))

\* extract_enhanced_tech_stack
extract_enhanced_tech_stack(item, details) ==
    LET s1 == IfSeq(TruthyStr(item.language), <<item.language>>)
        s2 == AppendNew(s1, Take(details.languages, 5))
        \* the comprehension tests each topic against tech_stack before the extend
        s3 == s2 \o SelectSeq(Take(item.topics, 5), LAMBDA t : ~InSeq(t, s2))
        words == Split(str_lower(item.name \o " " \o item.description))
        hits == SelectSeq(TechPatterns, LAMBDA p : InSeq(p[1], words))
        s4 == AppendNew(s3, [k \in 1..Len(hits) |-> hits[k][2]])
    IN Take(s4, 8)

\* determine_customization_difficulty raises on a null language
\* (item.get("language", "").lower()) and on a null description
\* (len(item.get("description", ""))); process_repository_item then returns None
EnhProcessFails(item) == item.language = NoneVal \/ item.description = NoneVal

determine_customization_difficulty(item, details) ==
    LET language == str_lower(item.language)
        d1 == IF item.size < 1000 THEN 1 ELSE IF item.size < 10000 THEN 2 ELSE 3
        d2 == d1 + (IF language \in {"c++", "c", "rust", "go", "java", "scala", "haskell"} THEN 2
                    ELSE IF language \in {"python", "javascript", "html", "css"} THEN 0
                    ELSE 1)
        d3 == d2 + (IF Len(item.description) > 100 /\ details.readme THEN -1
                    ELSE IF Len(item.description) < 20 THEN 1 ELSE 0)
        d4 == d3 + (IF item.days_since_update > 365 THEN 1
                    ELSE IF item.days_since_update < 30 THEN -1 ELSE 0)
        d5 == d4 + (IF Len(details.languages) > 5 THEN 1 ELSE 0)
    IN IF d5 <= 2 THEN "easy" ELSE IF d5 <= 4 THEN "medium" ELSE "hard"

generate_visual_summary(item, details) ==
    LET relevant == Take(SelectSeq(item.topics,
                             LAMBDA t : t \notin {"javascript", "python", "typescript"}), 3)
        s1 == IF TruthyStr(item.description) /\ Len(item.description) > 20
              THEN item.description
              ELSE "A " \o item.language \o " project"
                       \o (IF relevant # << >>
                           THEN " focused on " \o JoinComma(relevant) ELSE "")
        s2 == s1 \o (IF item.stargazers_count > 10000 THEN " (highly popular)"
                     ELSE IF item.stargazers_count > 1000 THEN " (popular)" ELSE "")
        s3 == s2 \o (IF item.days_since_update < 30 THEN " (recently updated)"
                     ELSE IF item.days_since_update > 365 THEN " (may need updates)" ELSE "")
    IN SubSeq(s3, 1, Min(200, Len(s3)))

\* calculate_quality_score returning the sum of the factors, without the cap
calculate_quality_score_Uncapped(item, details) ==
    LET s1 == StarPoints(item.stargazers_count)
        s2 == s1 + ForkPoints(item.forks_count)
        s3 == s2 + (IF TruthyStr(item.description) THEN 2000 ELSE 0)
                 + (IF details.readme THEN 3000 ELSE 0)
        s4 == s3 + (IF item.days_since_update < 30 THEN 5000
                    ELSE IF item.days_since_update < 90 THEN 3000
                    ELSE IF item.days_since_update < 365 THEN 1000 ELSE 0)
        s5 == s4 + (IF item.license THEN 2000 ELSE 0)
        \* issue_ratio = issues / max(watchers, 1) against 0.1 and 0.3
        s6 == s5 + (IF item.watchers_count > 0
                    THEN IF item.open_issues_count * 10 < item.watchers_count THEN 2000
                         ELSE IF item.open_issues_count * 10 < 3 * item.watchers_count THEN 1000
                         ELSE 0
                    ELSE 0)
    IN s6

\* calculate_quality_score, in thousandths
calculate_quality_score(item, details) ==
    LET s1 == StarPoints(item.stargazers_count)
        s2 == s1 + ForkPoints(item.forks_count)
        s3 == s2 + (IF TruthyStr(item.description) THEN 2000 ELSE 0)
                 + (IF details.readme THEN 3000 ELSE 0)
        s4 == s3 + (IF item.days_since_update < 30 THEN 5000
                    ELSE IF item.days_since_update < 90 THEN 3000
                    ELSE IF item.days_since_update < 365 THEN 1000 ELSE 0)
        s5 == s4 + (IF item.license THEN 2000 ELSE 0)
        \* issue_ratio = issues / max(watchers, 1) against 0.1 and 0.3
        s6 == s5 + (IF item.watchers_count > 0
                    THEN IF item.open_issues_count * 10 < item.watchers_count THEN 2000
                         ELSE IF item.open_issues_count * 10 < 3 * item.watchers_count THEN 1000
                         ELSE 0
                    ELSE 0)
    IN Min(EnhancedQualityCap, s6)

\* the RepoResult process_repository_item builds when it does not fail
process_repository_item(item, details) ==
    [ name |-> item.full_name,
      url |-> item.html_url,
      visual_summary |-> generate_visual_summary(item, details),
      tech_stack |-> extract_enhanced_tech_stack(item, details),
      customization_difficulty |-> determine_customization_difficulty(item, details),
      quality_score |-> calculate_quality_score(item, details),
      relevance_score |-> 0 ]

\* calculate_relevance_score, in thousandths
calculate_relevance_score(repo, description) ==
    LET desc_lower == str_lower(description)
        words == Split(desc_lower)
        segments == SplitOn(str_lower(repo.name), "/", "")
        last == segments[Len(segments)]
        name_words == Split(ReplaceBySpace(ReplaceBySpace(last, "-"), "_"))
        summary_lower == str_lower(repo.visual_summary)
        by_name == Len(SelectSeq(words, LAMBDA w : \E k \in 1..Len(name_words) :
                                                       Contains(name_words[k], w)))
        by_summary == IF repo.visual_summary # ""
                      THEN Len(SelectSeq(words, LAMBDA w : Contains(summary_lower, w)))
                      ELSE 0
        by_tech == Len(SelectSeq(repo.tech_stack,
                                 LAMBDA t : Contains(desc_lower, str_lower(t))))
    IN 2000 * by_name + 1000 * by_summary + 3000 * by_tech
           + (IF repo.customization_difficulty = "easy" THEN 1000 ELSE 0)

\* sorted(list, key=combined_score, reverse=True): stable, equal keys keep
\* their order
RECURSIVE InsertRanked(_, _)
InsertRanked(sorted, repo) ==
    IF sorted = << >> THEN <<repo>>
    ELSE IF combined_score(Head(sorted)) >= combined_score(repo)
         THEN <<Head(sorted)>> \o InsertRanked(Tail(sorted), repo)
         ELSE <<repo>> \o sorted

RECURSIVE SortRanked(_)
SortRanked(list) ==
    IF list = << >> THEN << >>
    ELSE InsertRanked(SortRanked(SubSeq(list, 1, Len(list) - 1)), list[Len(list)])

\* filter_and_rank_repos
filter_and_rank_repos(repos, description, f) ==
    LET scored == [k \in 1..Len(repos) |->
                      [repos[k] EXCEPT !.relevance_score =
                                           calculate_relevance_score(repos[k], description)]]
        min_quality == IF f.present /\ TruthyInt(f.min_stars) /\ f.min_stars > 100
                       THEN 8000 ELSE 5000
        kept == SelectSeq(scored, LAMBDA r : r.quality_score >= min_quality)
    IN SortRanked(kept)

\* ---------------------------------------------------------------------------
\* The enhanced pass: process_repository_item over a batch, then
\* filter_and_rank_repos
\* ---------------------------------------------------------------------------
EnhItems == {0, 1, 2, 3}

IdleEnh ==
    [ pc |-> "collect", seen |-> 0, repos |-> << >>, d |-> NoneVal, ranked |-> << >> ]

\* process_repository_item on one provider item, the detail endpoints
\* answering resp
EnhProcessItem(i, resp) ==
    /\ enh.pc = "collect"
    /\ enh.seen < MaxBatch
    /\ LET item == Item(i)
           out == get_enhanced_repo_details(item.full_name, cache, cacheUp, resp)
       IN /\ cache' = out.cache
          /\ enh' = [enh EXCEPT !.seen = @ + 1,
                                !.repos = IF EnhProcessFails(item) THEN @
                                          ELSE Append(@, process_repository_item(item, out.value))]
    /\ UNCHANGED <<cacheUp, db, today, sreq, firstCall, cv, templates, named, lib, saves, inc>>

\* process_repository_item_simple on one provider item
EnhProcessSimple(i) ==
    /\ enh.pc = "collect"
    /\ enh.seen < MaxBatch
    /\ enh' = [enh EXCEPT !.seen = @ + 1,
                          !.repos = IF ProcessFails(Item(i)) THEN @
                                    ELSE Append(@, SimpleResults[i])]
    /\ UNCHANGED <<cache, cacheUp, db, today, sreq, firstCall, cv, templates, named, lib, saves, inc>>

\* filter_and_rank_repos over the batch
EnhRank(d, f) ==
    /\ enh.pc = "collect"
    /\ enh' = [enh EXCEPT !.pc = "ranked", !.d = d,
                          !.ranked = filter_and_rank_repos(enh.repos, d, f)]
    /\ UNCHANGED <<cache, cacheUp, db, today, sreq, firstCall, cv, templates, named, lib, saves, inc>>

\* ---------------------------------------------------------------------------
\* Conversion inputs and provider payloads
\* ---------------------------------------------------------------------------
Urls == {"https://github.com/acme/widget", "https://github.com/acme", "acme/widget"}

\* repo_url.startswith("https://github.com/")
StartsWithGithub(url) == url \in {"https://github.com/acme/widget", "https://github.com/acme"}

\* re.match(r"https://github\.com/([^/]+)/([^/]+)/?", repo_url): owner/repo, or
\* NoneVal when the URL does not match
RepoPath(url) == IF url = "https://github.com/acme/widget" THEN "acme/widget" ELSE NoneVal

ConvDescs == {"internal dashboard", "   "}

\* template_description.strip()
Strip(text) == IF text = "   " THEN "" ELSE text

\* user_context: present = FALSE is user_context=None
UserContexts ==
    { [present |-> FALSE, project_name |-> NoneVal, preferred_style |-> NoneVal],
      [present |-> TRUE, project_name |-> NoneVal, preferred_style |-> NoneVal],
      [present |-> TRUE, project_name |-> "Acme", preferred_style |-> "minimal"] }

\* "language" of the repository payload; NoneVal is GitHub's "language": null
Languages == {NoneVal, "Python", "Go", "C"}

\* str.lower() on the language names
Lower(lang) ==
    CASE lang = "Python" -> "python"
      [] lang = "Ruby" -> "ruby"
      [] lang = "Go" -> "go"
      [] lang = "C" -> "c"
      [] OTHER -> lang

\* answers of the detail endpoint; status 0 is a transport error or timeout
DetailResponses ==
    {[status |-> 200, name |-> "widget", language |-> l] : l \in Languages}
        \cup {[status |-> s, name |-> NoneVal, language |-> NoneVal] : s \in {404, 403, 500, 0}}

FileNames ==
    {"package.json", "tailwind.config.js", "next.config.js", "vite.config.js",
     "requirements.txt", "app.py", "Gemfile", "go.mod"}

\* the names of the files in a contents listing
Listings == {l \in SUBSET FileNames : Cardinality(l) <= MaxFiles}

\* answers of the contents endpoint
StructureResponses ==
    {[status |-> 200, files |-> l] : l \in Listings}
        \cup {[status |-> s, files |-> {}] : s \in {404, 403, 500, 0}}

\* what the OpenAI call yields: a plan with the five keys ("ok"), a non-200
\* status, a transport error or timeout, text that is not JSON, JSON lacking a
\* key, JSON with the five keys but a value of the wrong type
AIOutcomes == {"ok", "http_error", "transport", "bad_json", "missing_key", "bad_values"}

\* the plan an AI answer carries; typed = FALSE when a value is not of the type
\* ConversionResult declares
AIPlan(typed) ==
    [ conversion_steps |-> <<"ai step">>,
      files_to_modify |-> <<"ai file">>,
      customization_points |-> <<"ai point">>,
      setup_commands |-> <<"ai command">>,
      expected_outcome |-> "ai outcome",
      typed |-> typed ]

NoPlan ==
    [ conversion_steps |-> << >>, files_to_modify |-> << >>,
      customization_points |-> << >>, setup_commands |-> << >>,
      expected_outcome |-> "", typed |-> TRUE ]

\* ---------------------------------------------------------------------------
\* Detail and structure fetch (github_service.py)
\* ---------------------------------------------------------------------------
DetailKey(path) == CacheKey("repo_details_v2:" \o path, NoneVal)
StructureKey(path) == CacheKey("repo_structure:" \o path, NoneVal)

\* get_repo_details written like get_repo_structure: failures answered with an
\* empty value instead of an exception
get_repo_details_Swallow(url, c, up, resp) ==
    LET path == RepoPath(url)
        value == [name |-> resp.name, language |-> resp.language]
    IN IF path # NoneVal /\ resp.status = 200
       THEN [raised |-> FALSE, value |-> value,
             cache |-> SetCache(c, up, DetailKey(path), value), calls |-> 1]
       ELSE [raised |-> FALSE, value |-> [name |-> NoneVal, language |-> NoneVal],
             cache |-> c, calls |-> IF path = NoneVal THEN 0 ELSE 1]

\* get_repo_details on cache c with the provider answering resp:
\* raised, the value returned, the cache afterwards, provider calls made
get_repo_details(url, c, up, resp) ==
    LET path == RepoPath(url)
        cached == IF path = NoneVal THEN Nothing ELSE GetCached(c, up, DetailKey(path))
        value == [name |-> resp.name, language |-> resp.language]
    IN IF path = NoneVal
       THEN [raised |-> TRUE, value |-> [name |-> NoneVal, language |-> NoneVal],
             cache |-> c, calls |-> 0]
       ELSE IF cached.some
       THEN [raised |-> FALSE, value |-> cached.val, cache |-> c, calls |-> 0]
       ELSE IF resp.status = 200
       THEN [raised |-> FALSE, value |-> value,
             cache |-> SetCache(c, up, DetailKey(path), value), calls |-> 1]
       ELSE [raised |-> TRUE, value |-> [name |-> NoneVal, language |-> NoneVal],
             cache |-> c, calls |-> 1]

\* get_repo_structure storing the empty list it answers a failure with
get_repo_structure_CacheFailure(url, c, up, resp) ==
    LET path == RepoPath(url)
        cached == IF path = NoneVal THEN Nothing ELSE GetCached(c, up, StructureKey(path))
    IN IF path = NoneVal
       THEN [raised |-> FALSE, value |-> {}, cache |-> c, calls |-> 0]
       ELSE IF cached.some /\ cached.val # {}
       THEN [raised |-> FALSE, value |-> cached.val, cache |-> c, calls |-> 0]
       ELSE IF resp.status = 200
       THEN [raised |-> FALSE, value |-> resp.files,
             cache |-> SetCache(c, up, StructureKey(path), resp.files), calls |-> 1]
       ELSE [raised |-> FALSE, value |-> {},
             cache |-> SetCache(c, up, StructureKey(path), {}), calls |-> 1]

\* get_repo_structure: every failure is caught and answered with the empty list
get_repo_structure(url, c, up, resp) ==
    LET path == RepoPath(url)
        cached == IF path = NoneVal THEN Nothing ELSE GetCached(c, up, StructureKey(path))
    IN IF path = NoneVal
       THEN [raised |-> FALSE, value |-> {}, cache |-> c, calls |-> 0]
       ELSE IF cached.some /\ cached.val # {}
       THEN [raised |-> FALSE, value |-> cached.val, cache |-> c, calls |-> 0]
       ELSE IF resp.status = 200
       THEN [raised |-> FALSE, value |-> resp.files,
             cache |-> SetCache(c, up, StructureKey(path), resp.files), calls |-> 1]
       ELSE [raised |-> FALSE, value |-> {}, cache |-> c, calls |-> 1]

\* ---------------------------------------------------------------------------
\* Conversion synthesizer (template_service.py)
\* ---------------------------------------------------------------------------
\* user_context.get(field) on the dict of the context: {} when user_context is
\* None, else UserContext.dict(), which has no deployment_preference and no
\* target_audience key
UcGet(uc, field) ==
    IF ~uc.present THEN NoneVal
    ELSE CASE field = "project_name" -> uc.project_name
           [] field = "preferred_style" -> uc.preferred_style
           [] OTHER -> NoneVal

\* list.insert(i, x) with a 0-based index i <= len
InsertAt(s, i, x) == SubSeq(s, 1, i) \o <<x>> \o SubSeq(s, i + 1, Len(s))

\* x in any of the names
AnyIn(names, files) == names \cap files # {}

BaseSteps ==
    << "Clone the repository to your local development environment",
       "Review the existing codebase and documentation",
       "Install dependencies using the appropriate package manager",
       "Configure environment variables and settings",
       "Customize branding, styling, and content",
       "Test the application locally",
       "Update documentation with your customizations",
       "Prepare for deployment to your chosen platform" >>

\* context.get('language', '').lower() raises AttributeError when the language
\* key holds None
RulesRaise(ctx) == ctx.language = NoneVal

\* generate_expected_outcome
generate_expected_outcome(user_description, uc, ctx) ==
    LET project_name == IF uc.present THEN uc.project_name ELSE "your project"
        o1 == "After following the conversion steps, you will have a fully customized "
                 \o Lower(user_description) \o " based on the " \o ctx.repo_name \o " repository. "
        o2 == o1 \o (IF project_name # "your project"
                     THEN "The application will be branded as '" \o project_name \o "' and "
                     ELSE "")
        o3 == o2 \o "built using " \o ctx.language
                 \o " with all dependencies properly configured. "
        o4 == o3 \o (IF TruthyStr(UcGet(uc, "target_audience"))
                     THEN "It will be optimized for " \o UcGet(uc, "target_audience") \o " with "
                     ELSE "")
        o5 == o4 \o (IF TruthyStr(UcGet(uc, "preferred_style"))
                     THEN "a " \o UcGet(uc, "preferred_style") \o " design aesthetic. "
                     ELSE "")
        o6 == o5 \o "The template will include comprehensive setup instructions, "
                 \o "customization guidelines, and deployment-ready configuration. "
    IN o6 \o (IF TruthyStr(UcGet(uc, "deployment_preference"))
              THEN "It will be ready for deployment on " \o UcGet(uc, "deployment_preference")
                       \o " with minimal additional configuration required."
              ELSE "You'll be able to deploy it to your preferred hosting platform.")

\* analyze_with_enhanced_rules, for a context on which it does not raise
analyze_with_enhanced_rules(ctx) ==
    LET language == Lower(ctx.language)
        files == ctx.structure
        uc == ctx.user_context
        node == "package.json" \in files
        python == ~node /\ ("requirements.txt" \in files \/ language = "python")
        ruby == ~node /\ ~python /\ ("Gemfile" \in files \/ language = "ruby")
        go == ~node /\ ~python /\ ~ruby /\ ("go.mod" \in files \/ language = "go")
        nextjs == node /\ AnyIn({"next.config.js", "next.config.ts"}, files)
        tailwind == node /\ "tailwind.config.js" \in files
        vite == node /\ AnyIn({"vite.config.js", "vite.config.ts"}, files)
        deployment == UcGet(uc, "deployment_preference")
        steps0 == IF nextjs
                  THEN InsertAt(BaseSteps, 4,
                                "Configure Next.js specific settings and optimizations")
                  ELSE BaseSteps
        cmds ==
            IF node THEN <<"npm install", "npm run dev">>
            ELSE IF python
                 THEN <<"python -m venv venv", "source venv/bin/activate",
                        "pip install -r requirements.txt", "python app.py">>
                          \o IfSeq("Dockerfile" \in files, <<"docker build -t your-app-name .">>)
            ELSE IF ruby THEN <<"bundle install", "rails server">>
            ELSE IF go THEN <<"go mod tidy", "go run main.go">>
            ELSE << >>
        mods ==
            <<"README.md">> \o
            (IF node
             THEN <<"package.json", ".env.example">>
                      \o IfSeq(nextjs, <<"next.config.js">>)
                      \o IfSeq(tailwind, <<"tailwind.config.js">>)
             ELSE IF python
                  THEN <<"requirements.txt", ".env.example">>
                           \o IfSeq(AnyIn({"app.py", "main.py"}, files), <<"app.py", "main.py">>)
             ELSE IF ruby THEN <<"Gemfile", "config/application.rb">>
             ELSE IF go THEN <<"go.mod", "main.go">>
             ELSE << >>)
        points0 ==
            IF node
            THEN <<"Update package.json with your project details",
                   "Configure environment variables in .env file",
                   "Customize application name and metadata">>
                     \o IfSeq(nextjs, <<"Configure Next.js settings and optimizations",
                                        "Set up custom domains and redirects",
                                        "Configure image optimization and static exports">>)
                     \o IfSeq(tailwind, <<"Customize Tailwind CSS theme colors and fonts",
                                          "Configure responsive breakpoints",
                                          "Add custom utility classes">>)
                     \o IfSeq(vite, <<"Configure Vite build settings and plugins">>)
            ELSE IF python
                 THEN <<"Update Python dependencies as needed",
                        "Configure database connections and API keys",
                        "Customize application settings and configurations">>
                          \o IfSeq(AnyIn({"app.py", "main.py"}, files),
                                   <<"Modify main application logic and routes">>)
                          \o IfSeq("Dockerfile" \in files,
                                   <<"Configure Docker settings for deployment">>)
            ELSE IF ruby
                 THEN <<"Update Ruby gems and versions",
                        "Configure Rails application settings",
                        "Customize database configuration">>
            ELSE IF go
                 THEN <<"Update Go module dependencies",
                        "Configure application settings and environment",
                        "Customize API endpoints and handlers">>
            ELSE << >>
        points ==
            IfSeq(TruthyStr(UcGet(uc, "project_name")),
                  <<"Update all references to use your project name: "
                        \o UcGet(uc, "project_name")>>)
                \o points0
                \o IfSeq(TruthyStr(UcGet(uc, "preferred_style")),
                         <<"Apply " \o UcGet(uc, "preferred_style")
                               \o " styling throughout the application">>)
                \o IfSeq(TruthyStr(deployment),
                         <<"Set up " \o deployment \o " deployment configuration">>)
    IN [ conversion_steps |->
             steps0 \o IfSeq(TruthyStr(deployment),
                             <<"Configure deployment settings for " \o deployment>>),
         files_to_modify |-> mods,
         customization_points |-> points,
         setup_commands |-> cmds,
         expected_outcome |-> generate_expected_outcome(ctx.user_description, uc, ctx),
         typed |-> TRUE ]

\* one call of the rule engine: raised or the plan, and the call in the trace
CallRules(ctx) ==
    IF RulesRaise(ctx)
    THEN [raised |-> TRUE, plan |-> NoPlan, trace |-> <<"rules">>]
    ELSE [raised |-> FALSE, plan |-> analyze_with_enhanced_rules(ctx), trace |-> <<"rules">>]

\* b called after a: the trace of both
After(tr, out) == [out EXCEPT !.trace = tr \o out.trace]

\* analyze_with_openai_enhanced with the call yielding outcome.  The fallbacks
\* reached from inside the try block (non-200 status, invalid JSON, missing
\* key) run under the outer `except Exception`, which calls the rule engine
\* again when the first call raised; the fallback of a transport error runs in
\* the handler itself.
analyze_with_openai_enhanced(ctx, outcome) ==
    IF outcome = "ok" THEN [raised |-> FALSE, plan |-> AIPlan(TRUE), trace |-> <<"openai">>]
    ELSE IF outcome = "bad_values"
    THEN [raised |-> FALSE, plan |-> AIPlan(FALSE), trace |-> <<"openai">>]
    ELSE IF outcome = "transport" THEN After(<<"openai">>, CallRules(ctx))
    ELSE LET first == After(<<"openai">>, CallRules(ctx))
         IN IF first.raised THEN After(first.trace, CallRules(ctx)) ELSE first

\* analyze_with_anthropic: no provider call is implemented, the rule engine answers
analyze_with_anthropic(ctx) == After(<<"anthropic">>, CallRules(ctx))

\* analyze_repo_with_enhanced_ai
analyze_repo_with_enhanced_ai(ctx, openai_key, anthropic_key, outcome) ==
    LET first == IF openai_key THEN analyze_with_openai_enhanced(ctx, outcome)
                 ELSE IF anthropic_key THEN analyze_with_anthropic(ctx)
                 ELSE CallRules(ctx)
    IN IF first.raised THEN After(first.trace, CallRules(ctx)) ELSE first

\* the context built without the file listing
Context_NoStructure(details, structure, description, uc) ==
    [ repo_name |-> details.name, language |-> details.language,
      structure |-> {}, user_description |-> description, user_context |-> uc ]

\* the context dictionary convert_repo_to_template builds
Context(details, structure, description, uc) ==
    [ repo_name |-> details.name, language |-> details.language,
      structure |-> structure, user_description |-> description, user_context |-> uc ]

\* ---------------------------------------------------------------------------
\* Template naming (template_service.py)
\* ---------------------------------------------------------------------------
\* stop_words of extract_key_words
StopWords ==
    {"a", "an", "the", "for", "with", "using", "to", "from", "of", "in", "on", "at", "by"}

\* s.lstrip(chars), s.rstrip(chars), s.strip(chars) for a string of characters
RECURSIVE LStripChars(_, _)
LStripChars(s, chars) ==
    IF s # "" /\ Contains(chars, CharAt(s, 1))
    THEN LStripChars(SubSeq(s, 2, Len(s)), chars) ELSE s

RECURSIVE RStripChars(_, _)
RStripChars(s, chars) ==
    IF s # "" /\ Contains(chars, CharAt(s, Len(s)))
    THEN RStripChars(SubSeq(s, 1, Len(s) - 1), chars) ELSE s

StripChars(s, chars) == RStripChars(LStripChars(s, chars), chars)

\* " ".join(list)
RECURSIVE JoinSpace(_)
JoinSpace(list) ==
    IF list = << >> THEN ""
    ELSE IF Len(list) = 1 THEN list[1]
    ELSE list[1] \o " " \o JoinSpace(Tail(list))

\* extract_key_words: the words are filtered as they stand in the text and
\* stripped of punctuation afterwards
extract_key_words(text) ==
    LET words == Split(str_lower(text))
        kept == SelectSeq(words, LAMBDA w : w \notin StopWords /\ Len(w) > 2)
    IN Take([k \in 1..Len(kept) |-> StripChars(kept[k], ".,!?")], 5)

\* generate_template_name; repo_name = NoneVal: repo_details has no "name"
generate_template_name(repo_name, description, uc) ==
    LET base_name == IF repo_name = NoneVal THEN "Template" ELSE repo_name
        key_words == extract_key_words(description)
    IN IF uc.present /\ TruthyStr(uc.project_name)
       THEN uc.project_name \o " (from " \o base_name \o ")"
       ELSE IF key_words # << >>
       THEN base_name \o " - " \o JoinSpace(Take(key_words, 3))
       ELSE base_name \o " Template"

\* the words the descriptions are made of
NameWords == {"the", "the,", "app", "...", "to", "Dashboard"}

\* the descriptions: up to MaxWords words, one blank between them
RECURSIVE DescsOfLength(_)
DescsOfLength(n) ==
    IF n = 1 THEN NameWords
    ELSE {d \o " " \o w : d \in DescsOfLength(n - 1), w \in NameWords}

NameDescs == UNION {DescsOfLength(n) : n \in 1..MaxWords}

NotNamed ==
    [ called |-> FALSE, repo_name |-> NoneVal, description |-> "",
      uc |-> CHOOSE u \in UserContexts : ~u.present,
      key_words |-> << >>, name |-> "" ]

\* one call of generate_template_name
GenerateName(repo_name, description, uc) ==
    /\ ~named.called
    /\ named' = [ called |-> TRUE, repo_name |-> repo_name, description |-> description,
                  uc |-> uc, key_words |-> extract_key_words(description),
                  name |-> generate_template_name(repo_name, description, uc) ]
    /\ UNCHANGED <<cache, cacheUp, db, today, sreq, firstCall, cv, templates, enh, lib, saves, inc>>

\* ---------------------------------------------------------------------------
\* The conversion request
\* ---------------------------------------------------------------------------
NoDetails == [name |-> NoneVal, language |-> NoneVal]
NoError == [kind |-> NoneVal, attempt |-> 0, status |-> 0]

IdleConv ==
    [ pc |-> "idle", url |-> NoneVal, desc |-> NoneVal,
      uc |-> CHOOSE u \in UserContexts : ~u.present,
      openai_key |-> FALSE, anthropic_key |-> FALSE,
      attempt |-> 0,            \* loop variable of the retry wrapper at work
      dhist |-> << >>,          \* status of each get_repo_details call, in order
      dcalls |-> 0,             \* calls of the detail endpoint
      shist |-> << >>,          \* status of each get_repo_structure call, in order
      scalls |-> 0,             \* calls of the contents endpoint
      slept |-> 0,              \* seconds of asyncio.sleep so far
      details |-> NoDetails, structure |-> {},
      outcome |-> NoneVal,      \* what the OpenAI call yielded, if made
      trace |-> << >>,          \* the strategies called, in order
      plan |-> NoPlan, store_ok |-> TRUE,
      error |-> NoError, result |-> NoPlan ]

StatsKey(user) == CacheKey("user:" \o user \o ":stats", NoneVal)

\* increment_user_stat up to its suspension between get_json and set_json:
\* stats.get(stat_name, 0) of the stats read, {} when nothing was read
stats_read(c, up, user) ==
    LET got == GetJson(c, up, StatsKey(user))
    IN IF got.some THEN got.val ELSE 0

\* increment_user_stat from there: set_json of the stats read, incremented
stats_write(c, up, user, read) == SetJson(c, up, StatsKey(user), read + 1)

\* increment_user_stat run without interleaving: read the counter, write it
\* back incremented
increment_user_stat(c, up, user) == stats_write(c, up, user, stats_read(c, up, user))

\* convert_repo_to_template: input validation
ConvStart(url, desc, uc, okey, akey) ==
    /\ cv.pc = "idle"
    /\ LET base == [IdleConv EXCEPT !.url = url, !.desc = desc, !.uc = uc,
                        !.openai_key = okey, !.anthropic_key = akey]
       IN cv' = IF ~StartsWithGithub(url) \/ Strip(desc) = ""
                THEN [base EXCEPT !.pc = "raised", !.error.kind = "validation"]
                ELSE [base EXCEPT !.pc = "details"]
    /\ UNCHANGED <<cache, cacheUp, db, today, sreq, firstCall, templates, enh, named, lib, saves, inc>>

\* get_repo_details_with_retry: one turn of the loop
ConvDetailAttempt(resp) ==
    /\ cv.pc = "details"
    /\ cv.attempt < MaxRetries
    /\ LET out == get_repo_details(cv.url, cache, cacheUp, resp)
           status == IF ~out.raised THEN 200
                     ELSE IF out.calls = 0 THEN -1 ELSE resp.status
           seen == [cv EXCEPT !.dhist = Append(@, status), !.dcalls = @ + out.calls]
       IN /\ cache' = out.cache
          /\ cv' = IF ~out.raised
                   THEN [seen EXCEPT !.pc = "structure", !.attempt = 0,
                                     !.details = out.value]
                   ELSE IF cv.attempt = MaxRetries - 1
                   THEN [seen EXCEPT !.pc = "raised",
                                     !.error = [kind |-> "details",
                                                attempt |-> cv.attempt + 1,
                                                status |-> status]]
                   ELSE [seen EXCEPT !.pc = "details_sleep"]
    /\ UNCHANGED <<cacheUp, db, today, sreq, firstCall, templates, enh, named, lib, saves, inc>>

\* the backoff with a constant delay: await asyncio.sleep(1)
ConvBackoff_ConstantDelay ==
    /\ cv.pc \in {"details_sleep", "structure_sleep"}
    /\ cv' = [cv EXCEPT !.slept = @ + 1, !.attempt = @ + 1,
                        !.pc = IF cv.pc = "details_sleep" THEN "details" ELSE "structure"]
    /\ UNCHANGED <<cache, cacheUp, db, today, sreq, firstCall, templates, enh, named, lib, saves, inc>>

\* await asyncio.sleep(1 * (attempt + 1)) of either retry wrapper, then the
\* next turn of its loop
ConvBackoff ==
    /\ cv.pc \in {"details_sleep", "structure_sleep"}
    /\ cv' = [cv EXCEPT !.slept = @ + (cv.attempt + 1), !.attempt = @ + 1,
                        !.pc = IF cv.pc = "details_sleep" THEN "details" ELSE "structure"]
    /\ UNCHANGED <<cache, cacheUp, db, today, sreq, firstCall, templates, enh, named, lib, saves, inc>>

\* get_repo_structure_with_retry: one turn of the loop
ConvStructureAttempt(resp) ==
    /\ cv.pc = "structure"
    /\ cv.attempt < MaxRetries
    /\ LET out == get_repo_structure(cv.url, cache, cacheUp, resp)
           seen == [cv EXCEPT !.shist = Append(@, resp.status), !.scalls = @ + out.calls]
       IN /\ cache' = out.cache
          /\ cv' = IF ~out.raised
                   THEN [seen EXCEPT !.pc = "analyze", !.attempt = 0,
                                     !.structure = out.value]
                   ELSE IF cv.attempt = MaxRetries - 1
                   THEN [seen EXCEPT !.pc = "analyze", !.attempt = 0, !.structure = {}]
                   ELSE [seen EXCEPT !.pc = "structure_sleep"]
    /\ UNCHANGED <<cacheUp, db, today, sreq, firstCall, templates, enh, named, lib, saves, inc>>

\* build the context and run analyze_repo_with_enhanced_ai
ConvAnalyze(outcome) ==
    /\ cv.pc = "analyze"
    /\ LET ctx == Context(cv.details, cv.structure, cv.desc, cv.uc)
           out == analyze_repo_with_enhanced_ai(ctx, cv.openai_key, cv.anthropic_key, outcome)
           seen == [cv EXCEPT !.trace = out.trace,
                              !.outcome = IF cv.openai_key THEN outcome ELSE NoneVal]
       IN cv' = IF out.raised
                THEN [seen EXCEPT !.pc = "raised", !.error.kind = "analysis"]
                ELSE [seen EXCEPT !.pc = "create", !.plan = out.plan]
    /\ UNCHANGED <<cache, cacheUp, db, today, sreq, firstCall, templates, enh, named, lib, saves, inc>>

\* create_template (commit of the template row), then increment_user_stat and
\* the construction of the ConversionResult, which pydantic validates
ConvCreate(store_ok) ==
    /\ cv.pc = "create"
    /\ IF ~store_ok
       THEN /\ cv' = [cv EXCEPT !.pc = "raised", !.error.kind = "store", !.store_ok = FALSE]
            /\ UNCHANGED <<cache, templates>>
       ELSE /\ templates' = templates + 1
            /\ cache' = increment_user_stat(cache, cacheUp, "u1")
            /\ cv' = IF cv.plan.typed
                     THEN [cv EXCEPT !.pc = "done", !.result = cv.plan]
                     ELSE [cv EXCEPT !.pc = "raised", !.error.kind = "result"]
    /\ UNCHANGED <<cacheUp, db, today, sreq, firstCall, enh, named, lib, saves, inc>>

\* ---------------------------------------------------------------------------
\* Concurrent upserts and the repository list of a user
\* ---------------------------------------------------------------------------
SaveTasks == 1..MaxSaves
LibUsers == {"u1", "u2"}
SavedItems == {1, 2}

\* the star counts the provider reports for an item over time
StarReports(i) == {Item(i).stargazers_count, Item(i).stargazers_count + 1}

IdleSave ==
    [ pc |-> "idle", user |-> NoneVal, item |-> 0, stars |-> 0,
      existing |-> NoRow, saved |-> FALSE ]

NoList ==
    [ called |-> FALSE, list |-> {}, hit |-> FALSE, up |-> TRUE,
      persisted |-> {} ]        \* history: the urls of the user's rows at the call

\* the payload a save task writes
SaveItem(t) == [Item(saves[t].item) EXCEPT !.stargazers_count = saves[t].stars]

\* save_repository_to_db of one processed candidate, up to the select
SaveSelect(t, u, i, stars, up) ==
    /\ saves[t].pc = "idle"
    /\ LET item == [Item(i) EXCEPT !.stargazers_count = stars]
           sel == save_select(db, item, u, up)
       IN saves' = [saves EXCEPT ![t] =
                        [ pc |-> IF sel.raised THEN "done" ELSE "selected",
                          user |-> u, item |-> i, stars |-> stars,
                          existing |-> sel.existing, saved |-> FALSE ]]
    /\ UNCHANGED <<cache, cacheUp, db, today, sreq, firstCall, cv, templates, enh, named, lib, inc>>

\* save_repository_to_db from the select to the commit
SaveCommit(t) ==
    /\ saves[t].pc = "selected"
    /\ db' = save_commit(db, saves[t].existing, SaveItem(t), saves[t].user)
    /\ saves' = [saves EXCEPT ![t].pc = "done", ![t].saved = TRUE]
    /\ UNCHANGED <<cache, cacheUp, today, sreq, firstCall, cv, templates, enh, named, lib, inc>>

\* one call of get_cached_repositories_for_user
LibList(u, up) ==
    /\ LET out == get_cached_repositories_for_user(db, cache, cacheUp, u, up)
       IN /\ cache' = out.cache
          /\ lib' = [lib EXCEPT ![u] =
                         [ called |-> TRUE, list |-> out.list, hit |-> out.hit, up |-> up,
                           persisted |-> {x.github_url : x \in {y \in db : y.user_id = u}} ]]
    /\ UNCHANGED <<cacheUp, db, today, sreq, firstCall, cv, templates, enh, named, saves, inc>>

\* ---------------------------------------------------------------------------
\* Concurrent conversions counting their templates
\* ---------------------------------------------------------------------------
CountTasks == 1..MaxConverts

IdleCount == [pc |-> "idle", read |-> 0]

\* the user's repositories_analyzed counter
StatOf(user) == IF StatsKey(user) \in DOMAIN cache THEN cache[StatsKey(user)] ELSE 0

\* convert_repo_to_template up to the return of create_template
CountCreate(t) ==
    /\ inc[t].pc = "idle"
    /\ templates' = templates + 1
    /\ inc' = [inc EXCEPT ![t].pc = "created"]
    /\ UNCHANGED <<cache, cacheUp, db, today, sreq, firstCall, cv, enh, named, lib, saves>>

\* increment_user_stat: await get_json
CountRead(t) ==
    /\ inc[t].pc = "created"
    /\ inc' = [inc EXCEPT ![t].pc = "read", ![t].read = stats_read(cache, cacheUp, "u1")]
    /\ UNCHANGED <<cache, cacheUp, db, today, sreq, firstCall, cv, templates, enh, named, lib, saves>>

\* increment_user_stat: await set_json; the request returns its result
CountWrite(t) ==
    /\ inc[t].pc = "read"
    /\ cache' = stats_write(cache, cacheUp, "u1", inc[t].read)
    /\ inc' = [inc EXCEPT ![t].pc = "done"]
    /\ UNCHANGED <<cacheUp, db, today, sreq, firstCall, cv, templates, enh, named, lib, saves>>

Init ==
    /\ cache = << >>
    /\ cacheUp \in BOOLEAN
    /\ db = {}
    /\ today = 0
    /\ sreq = [r \in Reqs |-> IdleSearch]
    /\ firstCall = << >>
    /\ cv = IdleConv
    /\ templates = 0
    /\ enh = IdleEnh
    /\ named = NotNamed
    /\ lib = [u \in LibUsers |-> NoList]
    /\ saves = [t \in SaveTasks |-> IdleSave]
    /\ inc = [t \in CountTasks |-> IdleCount]

NextSearch ==
    \/ \E r \in Reqs, d \in Descs, f \in Filters, u \in Users, up \in BOOLEAN :
           (u = NoneVal => up) /\ SearchStart(r, d, f, u, up)
    \/ \E r \in Reqs, resp \in Responses : SearchFetch(r, resp)
    \/ \E r \in Reqs : SearchProcessItem(r)
    \/ \E r \in Reqs : SearchStore(r)
    \/ \E r \in Reqs : SearchCancel(r)
    \/ \E k \in DOMAIN cache : Expire(k)
    \/ Tick

SpecSearch == Init /\ [][NextSearch]_vars

NextConvert ==
    \/ \E url \in Urls, desc \in ConvDescs, uc \in UserContexts, okey, akey \in BOOLEAN :
           ConvStart(url, desc, uc, okey, akey)
    \/ \E resp \in DetailResponses : ConvDetailAttempt(resp)
    \/ ConvBackoff
    \/ \E resp \in StructureResponses : ConvStructureAttempt(resp)
    \/ \E outcome \in AIOutcomes : ConvAnalyze(outcome)
    \/ \E store_ok \in BOOLEAN : ConvCreate(store_ok)

SpecConvert == Init /\ [][NextConvert]_vars

RankDescs == {"todo app", "React api for notes"}

NextEnhanced ==
    \/ \E i \in EnhItems, resp \in EnhResponses : EnhProcessItem(i, resp)
    \/ \E i \in EnhItems : EnhProcessSimple(i)
    \/ \E d \in RankDescs, f \in Filters : EnhRank(d, f)

SpecEnhanced == Init /\ [][NextEnhanced]_vars

NextNaming ==
    \E repo_name \in {"widget", NoneVal}, description \in NameDescs, uc \in UserContexts :
        GenerateName(repo_name, description, uc)

SpecNaming == Init /\ [][NextNaming]_vars

NextStore ==
    \/ \E t \in SaveTasks, u \in LibUsers, i \in SavedItems, up \in BOOLEAN :
           \E stars \in StarReports(i) : SaveSelect(t, u, i, stars, up)
    \/ \E t \in SaveTasks : SaveCommit(t)
    \/ \E u \in LibUsers, up \in BOOLEAN : LibList(u, up)
    \/ \E k \in DOMAIN cache : Expire(k)

SpecStore == Init /\ [][NextStore]_vars

NextStats ==
    \/ \E t \in CountTasks : CountCreate(t)
    \/ \E t \in CountTasks : CountRead(t)
    \/ \E t \in CountTasks : CountWrite(t)

SpecStats == Init /\ [][NextStats]_vars

\* ---------------------------------------------------------------------------
\* Properties of the search flow
\* ---------------------------------------------------------------------------
Done(r) == sreq[r].pc = "done"

\* the repositories the item loop yields for a provider item list
RECURSIVE ProcessedRepos(_)
ProcessedRepos(items) ==
    IF items = << >> THEN << >>
    ELSE LET rest == ProcessedRepos(Tail(items))
         IN IF ProcessFails(Item(Head(items))) THEN rest
            ELSE <<SimpleResults[Head(items)]>> \o rest

\* what a search returns for a provider item list on a cold working cache
ColdResult(items) == Take(ProcessedRepos(items), ResultLimit)

\* C1: a search repeated with the same (description, filters) within the TTL of
\* the first call's cache entry, on a working cache, returns the first call's
\* list and makes no provider call of its own.
C1_RepeatServedFromCache ==
    \A r \in Reqs :
        sreq[r].repeat =>
            /\ sreq[r].pcalls = 0
            /\ Done(r) => sreq[r].result = sreq[r].prior

\* C2: with the cache backend failing on every get and set, a search fails
\* only on a provider failure (never on a cache error), returns the list of a
\* cold working cache, and calls the provider exactly once.
C2_CacheDownFailOpen ==
    /\ \A r \in Reqs :
          (Done(r) /\ ~sreq[r].hit) => sreq[r].result = ColdResult(sreq[r].items)
    /\ ~cacheUp =>
          /\ cache = << >>
          /\ \A r \in Reqs :
                /\ sreq[r].pc # "idle" => sreq[r].pcalls = 1
                /\ sreq[r].pc = "failed" =>
                       sreq[r].error = "provider" /\ sreq[r].status # 200
                /\ Done(r) => ~sreq[r].hit

C2_Witness ==
    /\ ~cacheUp
    /\ \A r \in Reqs : Done(r) /\ sreq[r].result # << >>
    /\ \E r1, r2 \in Reqs : r1 # r2 /\ sreq[r1].key = sreq[r2].key

\* C9: in a returned list no repository is preceded by one of lower
\* combined_score = 0.6 x relevance_score + 0.4 x quality_score.
C9_RankedByCombinedScore ==
    \A r \in Reqs :
        Done(r) =>
            \A i, j \in 1..Len(sreq[r].result) :
                i < j => combined_score(sreq[r].result[i]) >= combined_score(sreq[r].result[j])

\* C10: a returned list has at most 10 repositories, on a miss and on a hit.
C10_AtMostTen ==
    \A r \in Reqs : Done(r) => Len(sreq[r].result) <= ResultLimit

\* ---------------------------------------------------------------------------
\* Properties of the conversion flow
\* ---------------------------------------------------------------------------
Attempted(strategy) == \E i \in 1..Len(cv.trace) : cv.trace[i] = strategy

\* the OpenAI call was made and did not yield a plan with the five keys
PrimaryFailed ==
    Attempted("openai") /\ cv.outcome \in {"http_error", "transport", "bad_json", "missing_key"}

\* C3: with both providers configured, the secondary AI provider is attempted
\* if and only if the primary was attempted and failed, and the rule engine
\* is called only after the AI providers.
C3_ChainOrder ==
    (cv.pc \in {"create", "done"} /\ cv.openai_key /\ cv.anthropic_key) =>
        /\ Attempted("anthropic") <=> PrimaryFailed
        /\ \A i, j \in 1..Len(cv.trace) :
              (cv.trace[i] = "rules" /\ cv.trace[j] # "rules") => j < i
        /\ (Attempted("openai") /\ cv.outcome = "ok") => cv.plan = AIPlan(TRUE)

\* C4: the rule engine returns a plan, without raising, for every context
\* convert_repo_to_template builds.
C4_RulesNeverRaise ==
    cv.pc = "analyze" =>
        ~CallRules(Context(cv.details, cv.structure, cv.desc, cv.uc)).raised

\* C5: a plan that convert returns after the AI call failed or returned
\* malformed text has five non-empty fields.
C5_FallbackPlanComplete ==
    (cv.pc = "done" /\ cv.openai_key /\ cv.anthropic_key /\ PrimaryFailed) =>
        /\ cv.result.conversion_steps # << >>
        /\ cv.result.files_to_modify # << >>
        /\ cv.result.customization_points # << >>
        /\ cv.result.setup_commands # << >>
        /\ cv.result.expected_outcome # ""

\* the detail fetch of the request has returned a value
DetailsReturned ==
    \/ cv.pc \in {"structure", "structure_sleep", "analyze", "create", "done"}
    \/ cv.pc = "raised" /\ cv.error.kind \in {"analysis", "store", "result"}

\* C6: the detail fetch is invoked at most 3 times; a successful attempt is
\* the last one and its value is what the wrapper returns; after 3 failed
\* attempts the wrapper raises the error of the third.
C6_DetailRetry ==
    /\ Len(cv.dhist) <= 3
    /\ \A i \in 1..Len(cv.dhist) :
          cv.dhist[i] = 200 => i = Len(cv.dhist) /\ DetailsReturned
    /\ DetailsReturned =>
          /\ cv.dhist # << >>
          /\ cv.dhist[Len(cv.dhist)] = 200
          /\ cv.details # NoDetails
    /\ cv.error.kind = "details" =>
          /\ Len(cv.dhist) = 3
          /\ \A i \in 1..3 : cv.dhist[i] # 200
          /\ cv.error.attempt = 3
          /\ cv.error.status = cv.dhist[3]

C6_Witness ==
    /\ cv.pc = "raised"
    /\ cv.error.kind = "details"
    /\ cv.dcalls = 3
    /\ cv.dhist[3] # cv.dhist[2]

\* C7: a structure fetch that ends without a successful provider call has
\* made 3 attempts.
C7_StructureRetried ==
    (cv.pc = "analyze" /\ \A i \in 1..Len(cv.shist) : cv.shist[i] # 200) =>
        Len(cv.shist) = 3

\* C8: with a healthy durable store, convert raises only on input validation
\* or on detail-fetch exhaustion.
C8_RaisesOnlyOnValidationOrDetails ==
    (cv.pc = "raised" /\ cv.store_ok) => cv.error.kind \in {"validation", "details"}

\* ---------------------------------------------------------------------------
\* Properties of scoring and ranking
\* ---------------------------------------------------------------------------
\* the repositories scored so far, by either path, before and after ranking
ScoredRepos ==
    {enh.repos[k] : k \in 1..Len(enh.repos)} \cup {enh.ranked[k] : k \in 1..Len(enh.ranked)}

\* C11: every scored repository has quality_score within [0, 25],
\* relevance_score >= 0 and customization_difficulty one of easy, medium, hard.
C11_ScoreRanges ==
    \A repo \in ScoredRepos :
        /\ 0 <= repo.quality_score /\ repo.quality_score <= 25000
        /\ repo.relevance_score >= 0
        /\ repo.customization_difficulty \in {"easy", "medium", "hard"}

\* a ranked batch holding a repository whose factors sum to more than the cap
\* and one of another difficulty
C11_Witness ==
    /\ enh.pc = "ranked"
    /\ \E k \in 1..Len(enh.ranked) :
           enh.ranked[k].quality_score = 25000 /\ enh.ranked[k].relevance_score > 0
    /\ \E j, k \in 1..Len(enh.ranked) :
           enh.ranked[j].customization_difficulty # enh.ranked[k].customization_difficulty
\* ---------------------------------------------------------------------------
\* Properties of the search flow: keys, failures, persistence, concurrency
\* ---------------------------------------------------------------------------
Started(r) == sreq[r].pc # "idle"

\* C12: two searches with the same (description, filters) build the same
\* query string and the same cache key, whenever they are made.
C12_KeyPureInInput ==
    \A r1, r2 \in Reqs :
        (Started(r1) /\ Started(r2) /\ sreq[r1].d = sreq[r2].d /\ sreq[r1].f = sreq[r2].f)
            => sreq[r1].key = sreq[r2].key

\* the request runs for a requester whose durable-store operations all fail
StoreDown(r) == Started(r) /\ sreq[r].user # NoneVal /\ ~sreq[r].store_up

\* a search that went to the provider and returned
Fetched(r) == Done(r) /\ ~sreq[r].hit

\* C14: with every durable-store operation failing, a search for a requester
\* fails only when the provider call fails and returns the list that a search
\* without requester returns for the same provider response.
C14_StoreFailureHarmless ==
    \A r \in Reqs :
        StoreDown(r) =>
            /\ sreq[r].writes = 0
            /\ sreq[r].pc = "failed" => (sreq[r].error = "provider" /\ sreq[r].status # 200)
            /\ Fetched(r) => sreq[r].result = ColdResult(sreq[r].items)
            /\ \A q \in Reqs :
                  (Fetched(r) /\ Fetched(q) /\ sreq[q].user = NoneVal
                       /\ sreq[q].items = sreq[r].items)
                      => sreq[q].result = sreq[r].result

C14_Witness ==
    \E r, q \in Reqs :
        /\ StoreDown(r) /\ Fetched(r) /\ Fetched(q)
        /\ sreq[q].user = NoneVal
        /\ sreq[q].items = sreq[r].items
        /\ Len(sreq[r].result) = 2
        /\ db = {}

\* C15: a request whose result list is not complete, or that was cancelled
\* before it was, has committed no upsert.
C15_NoWriteBeforeComplete ==
    \A r \in Reqs : sreq[r].pc \in {"process", "cancelled"} => sreq[r].writes = 0

\* the candidates of a provider item list that can be processed: those with a
\* description
Survivors(items) == SelectSeq(items, LAMBDA i : Item(i).description # NoneVal)

NoRepeat(list) == \A j, k \in 1..Len(list) : list[j] = list[k] => j = k

C18_TechStackBounded ==
    /\ \A r \in Reqs :
          Done(r) =>
              \A k \in 1..Len(sreq[r].result) :
                  /\ Len(sreq[r].result[k].tech_stack) <= 8
                  /\ NoRepeat(sreq[r].result[k].tech_stack)
    /\ \A repo \in ScoredRepos : Len(repo.tech_stack) <= 8 /\ NoRepeat(repo.tech_stack)

\* C20: a search that starts on a miss while another one for the same key is
\* in flight calls the provider itself, and the cache entry of a key is the
\* list of the request that stored it last.
C20_NoCoalescingLastWriteWins ==
    /\ \A r \in Reqs :
          sreq[r].overlap => (sreq[r].pcalls = 1 /\ ~sreq[r].hit)
    /\ \A r \in Reqs :
          (sreq[r].last /\ sreq[r].key \in DOMAIN cache) =>
              cache[sreq[r].key] = sreq[r].repos
    /\ \A r1, r2 \in Reqs :
          (sreq[r1].last /\ sreq[r2].last /\ sreq[r1].key = sreq[r2].key) => r1 = r2

C20_Witness ==
    \E r1, r2 \in Reqs :
        /\ sreq[r2].overlap
        /\ Fetched(r1) /\ Fetched(r2)
        /\ sreq[r1].pcalls + sreq[r2].pcalls = 2
        /\ sreq[r1].key = sreq[r2].key
        /\ sreq[r1].repos # sreq[r2].repos
        /\ sreq[r1].last
        /\ sreq[r1].key \in DOMAIN cache /\ cache[sreq[r1].key] = sreq[r1].repos

\* ---------------------------------------------------------------------------
\* Properties of the conversion flow: rate limits, validation, the rule plan
\* ---------------------------------------------------------------------------
\* C13: a 403 answer to the detail fetch ends the request with an error; no
\* further attempt follows it.
C13_ForbiddenNotRetried ==
    \A i \in 1..Len(cv.dhist) :
        cv.dhist[i] = 403 => (i = Len(cv.dhist) /\ cv.pc = "raised")

\* the rule engine produced the plan of the request
RulePlanUsed ==
    /\ cv.pc \in {"create", "done"}
    /\ cv.trace # << >> /\ cv.trace[Len(cv.trace)] = "rules"

C19_ValidationFirst ==
    (cv.pc # "idle" /\ (RepoPath(cv.url) = NoneVal \/ Strip(cv.desc) = "")) =>
        /\ cv.pc = "raised"
        /\ cv.error.kind = "validation"
        /\ cv.dhist = << >> /\ cv.dcalls = 0 /\ cv.slept = 0

\* ---------------------------------------------------------------------------
\* Properties of template naming
\* ---------------------------------------------------------------------------
\* C21: the name is "<project_name> (from <repo_name>)" when a project name is
\* given; else the repo name followed by at most 3 keywords, none a stopword
\* or empty; else "<repo_name> Template".
C21_TemplateName ==
    named.called =>
        LET base == IF named.repo_name = NoneVal THEN "Template" ELSE named.repo_name
            used == Take(named.key_words, 3)
        IN IF named.uc.present /\ TruthyStr(named.uc.project_name)
           THEN named.name = named.uc.project_name \o " (from " \o base \o ")"
           ELSE /\ \A k \in 1..Len(used) : used[k] \notin StopWords /\ used[k] # ""
                /\ used # << >> => named.name = base \o " - " \o JoinSpace(used)
                /\ used = << >> => named.name = base \o " Template"

\* ---------------------------------------------------------------------------
\* Properties of the durable store and the counters
\* ---------------------------------------------------------------------------
\* C24: after any interleaving of save_repository_to_db calls the table holds
\* at most one row per (requester, repository url).
C24_OneRowPerKey ==
    \A x \in db, y \in db :
        x.user_id = y.user_id /\ x.github_url = y.github_url => x = y

\* C29: a list returned by get_cached_repositories_for_user(u), from the
\* cache or from a healthy store, contains every repository persisted for u
\* before the call.
C29_ListContainsPersisted ==
    \A u \in LibUsers :
        lib[u].called /\ (lib[u].hit \/ lib[u].up) =>
            lib[u].persisted \subseteq {p.html_url : p \in lib[u].list}

\* C30: with a healthy cache, once n conversion requests of the user have
\* completed and none is under way, the repositories_analyzed counter is n.
C30_NoLostIncrement ==
    cacheUp /\ (\A t \in CountTasks : inc[t].pc \in {"idle", "done"}) =>
        StatOf("u1") = Cardinality({t \in CountTasks : inc[t].pc = "done"})

\* ---------------------------------------------------------------------------
\* Properties of the conversion flow, continued
\* ---------------------------------------------------------------------------
\* C22: the answer of the primary provider is taken as the plan only when it
\* is a JSON object with the five keys and well-formed values; any other
\* outcome of the call advances the chain and does not make convert fail.
C22_PrimaryAcceptedOnlyWellFormed ==
    Attempted("openai") =>
        /\ (cv.pc \in {"create", "done"} /\ cv.plan \in {AIPlan(TRUE), AIPlan(FALSE)})
               => cv.outcome = "ok"
        /\ (cv.pc = "raised" /\ cv.outcome # "ok") => cv.error.kind \in {"analysis", "store"}

\* the failed attempts of the detail fetch so far
FailedAttempts == Len(SelectSeq(cv.dhist, LAMBDA st : st # 200))

\* the backoff delays a detail fetch with that many failed attempts has sat out
DelaysDone ==
    IF cv.pc = "details_sleep" THEN FailedAttempts - 1
    ELSE Min(FailedAttempts, MaxRetries - 1)

Written == {k \in DOMAIN cache' : k \notin DOMAIN cache \/ cache'[k] # cache[k]}

\* C26: a step writes the entry of a search, detail or structure key only
\* when the provider answered that call with 200 (a failed call leaves the
\* cache as it was), and a structure taken from the cache is never empty.
C26_CacheWrittenOnlyAfter200 ==
    [][ /\ \A k \in Written :
              \/ /\ k = DetailKey(RepoPath(cv.url))
                 /\ cv'.dcalls = cv.dcalls + 1
                 /\ cv'.dhist[Len(cv'.dhist)] = 200
              \/ /\ k = StructureKey(RepoPath(cv.url))
                 /\ cv'.scalls = cv.scalls + 1
                 /\ cv'.shist[Len(cv'.shist)] = 200
              \/ k = StatsKey("u1")
              \/ \E u \in LibUsers : k = UserReposKey(u)
              \/ \E r \in Reqs : /\ sreq[r].key = k
                                /\ sreq[r].status = 200
                                /\ sreq[r].pcalls = 1
                                /\ sreq'[r].stored /\ ~sreq[r].stored
        /\ (cv.pc = "structure" /\ cv'.pc = "analyze" /\ cv'.scalls = cv.scalls)
              => cv'.structure # {}
      ]_vars

C26_Witness ==
    /\ cv.pc = "analyze"
    /\ cacheUp
    /\ cv.dcalls = 2
    /\ cv.dhist = <<500, 200>>
    /\ cv.scalls = 1
    /\ cv.shist = <<403>>
    /\ DetailKey(RepoPath(cv.url)) \in DOMAIN cache
    /\ StructureKey(RepoPath(cv.url)) \notin DOMAIN cache

\* C28: if convert raises, the request created no template record; if it
\* returns, it created exactly one, after the plan had been produced.
C28_TemplateAllOrNothing ==
    /\ cv.pc = "raised" => templates = 0
    /\ cv.pc = "done" => templates = 1 /\ cv.trace # << >>
    /\ templates > 0 => cv.trace # << >>

\* ---------------------------------------------------------------------------
\* Properties of search, continued
\* ---------------------------------------------------------------------------
\* the quality floor of filter_and_rank_repos for the filters of a request
QualityFloor(f) ==
    IF f.present /\ f.min_stars # NoInt /\ f.min_stars > 100 THEN 8000 ELSE 5000

\* C23: every repository a search returns has quality_score >= 5.0, and
\* >= 8.0 when the filters ask for min_stars > 100.
C23_QualityFloor ==
    \A r \in Reqs :
        Done(r) =>
            \A k \in 1..Len(sreq[r].result) :
                sreq[r].result[k].quality_score >= QualityFloor(sreq[r].f)

\* C27: after a search for an identified requester returned a non-empty list
\* with the store healthy, the store has a row of that requester for every
\* returned repository, also when the cache served the list.
C27_ReturnedReposPersisted ==
    \A r \in Reqs :
        (Done(r) /\ sreq[r].user # NoneVal /\ sreq[r].store_up /\ sreq[r].result # << >>) =>
            \A k \in 1..Len(sreq[r].result) :
                \E row \in db : /\ row.user_id = sreq[r].user
                                /\ row.github_url = sreq[r].result[k].url

====
